---- MODULE Spec2Model ----
(***************************************************************************)
(* Model of the ext_proc header-interception service.                      *)
(*                                                                         *)
(* The repository holds two revisions of the service:                      *)
(*   src/main.go           Process + processRequestHeaders +               *)
(*                         parseInstructions                               *)
(*   src/unnamed/part_000  Process + addProcessedByHeader                  *)
(* The variable `revision` says which of the two serves the streams.       *)
(*                                                                         *)
(* Go strings are TLA+ strings; strings.Contains and strings.ToLower are   *)
(* computed character by character with Len, SubSeq and \o.                *)
(***************************************************************************)
EXTENDS Integers, Sequences, FiniteSets, TLC

VARIABLES
    revision,   \* which source file's ExtProcServer is running
    pc,         \* pc[s]: where stream s's Process call stands: "Recv", "Send", "Returned",
                \* or "Crashed" once the process has ended (a panic or log.Fatalf):
                \* no Process call runs on s any more
    req,        \* req[s]: the request last returned by stream.Recv() on s
    resp,       \* resp[s]: the response built for req[s], handed to stream.Send
    ret,        \* ret[s]: what Process returned on s ("running" until it returns)
    lastIO,     \* lastIO[s]: the outcome of the last transport call made on s
    nRecv,      \* nRecv[s]: number of requests stream.Recv() has delivered on s
    nSent,      \* nSent[s]: number of responses stream.Send accepted on s
    lastSent,   \* lastSent[s]: the last response sent on s and the request it answers
    nPipeline,  \* nPipeline[s]: calls of processRequestHeaders / addProcessedByHeader on s
    nHeaderEvents, \* nHeaderEvents[s]: RequestHeaders requests delivered on s
    arg,        \* the HttpHeaders (or the directive payload) handed to the function under test
    directive,  \* the Directive the payload arg was encoded from (parseInstructions only)
    fn,         \* the function that was applied to arg ("none" before the call)
    locals,     \* processRequestHeaders' locals after its extraction loop
    callees,    \* the functions the applied function called, in call order
    result,     \* what the applied function returned
    mainPc,     \* where main stands: "start", "listen", "newHealthServer", "newGrpc",
                \* "serve", "serving", "exited"
    primary,    \* the listener on :9001: "unbound", "bound", "serving", "failed", "stopped"
    aux,        \* the /health server on :8080: "none", "starting", "up", "failed", "down"
    health,     \* the gRPC health server's status map
    probe,      \* the answer to the last GET /health
    nProbes     \* number of GET /health requests answered

streamVars == <<pc, req, resp, ret, lastIO, nRecv, nSent, lastSent, nPipeline, nHeaderEvents>>
fnVars == <<arg, directive, fn, locals, callees, result>>
mainVars == <<mainPc, primary, aux, health, probe, nProbes>>
vars == <<revision, pc, req, resp, ret, lastIO, nRecv, nSent, lastSent, nPipeline,
          nHeaderEvents, arg, directive, fn, locals, callees, result,
          mainPc, primary, aux, health, probe, nProbes>>

(***************************************************************************)
(* Bounds                                                                  *)
(***************************************************************************)
MaxEvents == 3      \* requests delivered per stream
MaxHeaders == 3     \* header entries per RequestHeaders message
MaxAdds == 2        \* key/value pairs under a directive's addHeaders
MaxRemoves == 2     \* entries of a directive's removeHeaders
MaxProbes == 2      \* GET /health requests answered

Streams == {"s1", "s2"}
Revisions == {"main.go", "part_000"}

(***************************************************************************)
(* strings.ToLower, strings.Contains                                       *)
(***************************************************************************)
\* A Go string is a sequence of bytes and is written byte by byte: the character
\* U+0000..U+00FF of a string stands for the byte of the same number, so a
\* character above U+007F of a Go string is written as its UTF-8 bytes.

\* the bytes 0x80..0xFF, in order
HighBytes == " ¡¢£¤¥¦§¨©ª«¬­®¯°±²³´µ¶·¸¹º»¼½¾¿ÀÁÂÃÄÅÆÇÈÉÊËÌÍÎÏÐÑÒÓÔÕÖ×ØÙÚÛÜÝÞßàáâãäåæçèéêëìíîïðñòóôõö÷øùúûüýþÿ"

HighByteSet == { SubSeq(HighBytes, i, i) : i \in 1..Len(HighBytes) }

\* the number of a byte 0x80..0xFF
ByteValue ==
    [ c \in HighByteSet |-> 127 + CHOOSE i \in 1..Len(HighBytes) : SubSeq(HighBytes, i, i) = c ]

\* the byte 0x80..0xFF of a number
ByteChar(n) == SubSeq(HighBytes, n - 127, n - 127)

\* the bytes 0x61..0x7A, in order
LowerLetters == "abcdefghijklmnopqrstuvwxyz"

\* utf8.RuneError, U+FFFD
RuneError == 65533

\* the capitals A..Z
Capitals ==
    { "A", "B", "C", "D", "E", "F", "G", "H", "I", "J", "K", "L", "M",
      "N", "O", "P", "Q", "R", "S", "T", "U", "V", "W", "X", "Y", "Z" }

LowerCapital(c) ==
    CASE c = "A" -> "a" [] c = "B" -> "b" [] c = "C" -> "c" [] c = "D" -> "d"
      [] c = "E" -> "e" [] c = "F" -> "f" [] c = "G" -> "g" [] c = "H" -> "h"
      [] c = "I" -> "i" [] c = "J" -> "j" [] c = "K" -> "k" [] c = "L" -> "l"
      [] c = "M" -> "m" [] c = "N" -> "n" [] c = "O" -> "o" [] c = "P" -> "p"
      [] c = "Q" -> "q" [] c = "R" -> "r" [] c = "S" -> "s" [] c = "T" -> "t"
      [] c = "U" -> "u" [] c = "V" -> "v" [] c = "W" -> "w" [] c = "X" -> "x"
      [] c = "Y" -> "y" [] c = "Z" -> "z"

\* unicode.ToLower on one byte below 0x80
LowerChar(c) == IF c \in Capitals THEN LowerCapital(c) ELSE c

\* byte i of s is a UTF-8 continuation byte 0x80..0xBF
IsContinuation(s, i) ==
    /\ i <= Len(s)
    /\ SubSeq(s, i, i) \in HighByteSet
    /\ ByteValue[SubSeq(s, i, i)] \in 128..191

\* utf8.DecodeRuneInString on a string that starts with a byte 0x80..0xFF:
\* the character and its width, or RuneError with width 1 for a byte that
\* starts no well-formed encoding
DecodeRune(s) ==
    LET b1 == ByteValue[SubSeq(s, 1, 1)]
        b2 == ByteValue[SubSeq(s, 2, 2)]
        b3 == ByteValue[SubSeq(s, 3, 3)]
        b4 == ByteValue[SubSeq(s, 4, 4)]
        invalid == [rune |-> RuneError, width |-> 1]
    IN  IF b1 \in 194..223
        THEN IF IsContinuation(s, 2)
             THEN [rune |-> (b1 - 192) * 64 + (b2 - 128), width |-> 2]
             ELSE invalid
        ELSE IF b1 \in 224..239
        THEN IF /\ IsContinuation(s, 2) /\ IsContinuation(s, 3)
                /\ (b1 = 224 => b2 >= 160)
                /\ (b1 = 237 => b2 <= 159)
             THEN [rune |-> (b1 - 224) * 4096 + (b2 - 128) * 64 + (b3 - 128), width |-> 3]
             ELSE invalid
        ELSE IF b1 \in 240..244
        THEN IF /\ IsContinuation(s, 2) /\ IsContinuation(s, 3) /\ IsContinuation(s, 4)
                /\ (b1 = 240 => b2 >= 144)
                /\ (b1 = 244 => b2 <= 143)
             THEN [rune |-> (b1 - 240) * 262144 + (b2 - 128) * 4096 + (b3 - 128) * 64 + (b4 - 128),
                   width |-> 4]
             ELSE invalid
        ELSE invalid

\* utf8.EncodeRune on a character unicode.ToLower returns for a character
\* above U+007F: below U+0080 it is one of the letters a..z
EncodeRune(r) ==
    IF r < 128 THEN SubSeq(LowerLetters, r - 96, r - 96)
    ELSE IF r < 2048 THEN ByteChar(192 + (r \div 64)) \o ByteChar(128 + (r % 64))
    ELSE IF r < 65536
    THEN ByteChar(224 + (r \div 4096)) \o ByteChar(128 + ((r \div 64) % 64)) \o ByteChar(128 + (r % 64))
    ELSE ByteChar(240 + (r \div 262144)) \o ByteChar(128 + ((r \div 4096) % 64))
         \o ByteChar(128 + ((r \div 64) % 64)) \o ByteChar(128 + (r % 64))

\* the capitals above U+007F with their lower case (Unicode 14 and 15): the
\* characters first, first + step, ..., last are lower-cased by adding delta
CaseRanges ==
    << <<192, 214, 1, 32>>, <<216, 222, 1, 32>>, <<256, 302, 2, 1>>, <<304, 304, 1, -199>>,
       <<306, 310, 2, 1>>, <<313, 327, 2, 1>>, <<330, 374, 2, 1>>, <<376, 376, 1, -121>>,
       <<377, 381, 2, 1>>, <<385, 385, 1, 210>>, <<386, 388, 2, 1>>, <<390, 390, 1, 206>>,
       <<391, 391, 1, 1>>, <<393, 394, 1, 205>>, <<395, 395, 1, 1>>, <<398, 398, 1, 79>>,
       <<399, 399, 1, 202>>, <<400, 400, 1, 203>>, <<401, 401, 1, 1>>, <<403, 403, 1, 205>>,
       <<404, 404, 1, 207>>, <<406, 406, 1, 211>>, <<407, 407, 1, 209>>, <<408, 408, 1, 1>>,
       <<412, 412, 1, 211>>, <<413, 413, 1, 213>>, <<415, 415, 1, 214>>, <<416, 420, 2, 1>>,
       <<422, 422, 1, 218>>, <<423, 423, 1, 1>>, <<425, 425, 1, 218>>, <<428, 428, 1, 1>>,
       <<430, 430, 1, 218>>, <<431, 431, 1, 1>>, <<433, 434, 1, 217>>, <<435, 437, 2, 1>>,
       <<439, 439, 1, 219>>, <<440, 440, 1, 1>>, <<444, 444, 1, 1>>, <<452, 452, 1, 2>>,
       <<453, 453, 1, 1>>, <<455, 455, 1, 2>>, <<456, 456, 1, 1>>, <<458, 458, 1, 2>>,
       <<459, 475, 2, 1>>, <<478, 494, 2, 1>>, <<497, 497, 1, 2>>, <<498, 500, 2, 1>>,
       <<502, 502, 1, -97>>, <<503, 503, 1, -56>>, <<504, 542, 2, 1>>, <<544, 544, 1, -130>>,
       <<546, 562, 2, 1>>, <<570, 570, 1, 10795>>, <<571, 571, 1, 1>>, <<573, 573, 1, -163>>,
       <<574, 574, 1, 10792>>, <<577, 577, 1, 1>>, <<579, 579, 1, -195>>, <<580, 580, 1, 69>>,
       <<581, 581, 1, 71>>, <<582, 590, 2, 1>>, <<880, 882, 2, 1>>, <<886, 886, 1, 1>>,
       <<895, 895, 1, 116>>, <<902, 902, 1, 38>>, <<904, 906, 1, 37>>, <<908, 908, 1, 64>>,
       <<910, 911, 1, 63>>, <<913, 929, 1, 32>>, <<931, 939, 1, 32>>, <<975, 975, 1, 8>>,
       <<984, 1006, 2, 1>>, <<1012, 1012, 1, -60>>, <<1015, 1015, 1, 1>>, <<1017, 1017, 1, -7>>,
       <<1018, 1018, 1, 1>>, <<1021, 1023, 1, -130>>, <<1024, 1039, 1, 80>>, <<1040, 1071, 1, 32>>,
       <<1120, 1152, 2, 1>>, <<1162, 1214, 2, 1>>, <<1216, 1216, 1, 15>>, <<1217, 1229, 2, 1>>,
       <<1232, 1326, 2, 1>>, <<1329, 1366, 1, 48>>, <<4256, 4293, 1, 7264>>, <<4295, 4295, 1, 7264>>,
       <<4301, 4301, 1, 7264>>, <<5024, 5103, 1, 38864>>, <<5104, 5109, 1, 8>>, <<7312, 7354, 1, -3008>>,
       <<7357, 7359, 1, -3008>>, <<7680, 7828, 2, 1>>, <<7838, 7838, 1, -7615>>, <<7840, 7934, 2, 1>>,
       <<7944, 7951, 1, -8>>, <<7960, 7965, 1, -8>>, <<7976, 7983, 1, -8>>, <<7992, 7999, 1, -8>>,
       <<8008, 8013, 1, -8>>, <<8025, 8031, 2, -8>>, <<8040, 8047, 1, -8>>, <<8072, 8079, 1, -8>>,
       <<8088, 8095, 1, -8>>, <<8104, 8111, 1, -8>>, <<8120, 8121, 1, -8>>, <<8122, 8123, 1, -74>>,
       <<8124, 8124, 1, -9>>, <<8136, 8139, 1, -86>>, <<8140, 8140, 1, -9>>, <<8152, 8153, 1, -8>>,
       <<8154, 8155, 1, -100>>, <<8168, 8169, 1, -8>>, <<8170, 8171, 1, -112>>, <<8172, 8172, 1, -7>>,
       <<8184, 8185, 1, -128>>, <<8186, 8187, 1, -126>>, <<8188, 8188, 1, -9>>, <<8486, 8486, 1, -7517>>,
       <<8490, 8490, 1, -8383>>, <<8491, 8491, 1, -8262>>, <<8498, 8498, 1, 28>>, <<8544, 8559, 1, 16>>,
       <<8579, 8579, 1, 1>>, <<9398, 9423, 1, 26>>, <<11264, 11311, 1, 48>>, <<11360, 11360, 1, 1>>,
       <<11362, 11362, 1, -10743>>, <<11363, 11363, 1, -3814>>, <<11364, 11364, 1, -10727>>, <<11367, 11371, 2, 1>>,
       <<11373, 11373, 1, -10780>>, <<11374, 11374, 1, -10749>>, <<11375, 11375, 1, -10783>>, <<11376, 11376, 1, -10782>>,
       <<11378, 11378, 1, 1>>, <<11381, 11381, 1, 1>>, <<11390, 11391, 1, -10815>>, <<11392, 11490, 2, 1>>,
       <<11499, 11501, 2, 1>>, <<11506, 11506, 1, 1>>, <<42560, 42604, 2, 1>>, <<42624, 42650, 2, 1>>,
       <<42786, 42798, 2, 1>>, <<42802, 42862, 2, 1>>, <<42873, 42875, 2, 1>>, <<42877, 42877, 1, -35332>>,
       <<42878, 42886, 2, 1>>, <<42891, 42891, 1, 1>>, <<42893, 42893, 1, -42280>>, <<42896, 42898, 2, 1>>,
       <<42902, 42920, 2, 1>>, <<42922, 42922, 1, -42308>>, <<42923, 42923, 1, -42319>>, <<42924, 42924, 1, -42315>>,
       <<42925, 42925, 1, -42305>>, <<42926, 42926, 1, -42308>>, <<42928, 42928, 1, -42258>>, <<42929, 42929, 1, -42282>>,
       <<42930, 42930, 1, -42261>>, <<42931, 42931, 1, 928>>, <<42932, 42946, 2, 1>>, <<42948, 42948, 1, -48>>,
       <<42949, 42949, 1, -42307>>, <<42950, 42950, 1, -35384>>, <<42951, 42953, 2, 1>>, <<42960, 42960, 1, 1>>,
       <<42966, 42968, 2, 1>>, <<42997, 42997, 1, 1>>, <<65313, 65338, 1, 32>>, <<66560, 66599, 1, 40>>,
       <<66736, 66771, 1, 40>>, <<66928, 66938, 1, 39>>, <<66940, 66954, 1, 39>>, <<66956, 66962, 1, 39>>,
       <<66964, 66965, 1, 39>>, <<68736, 68786, 1, 64>>, <<71840, 71871, 1, 32>>, <<93760, 93791, 1, 32>>,
       <<125184, 125217, 1, 34>> >>

\* unicode.ToLower on a character above U+007F
UnicodeToLower(r) ==
    LET hits == { i \in DOMAIN CaseRanges :
                    /\ r \in CaseRanges[i][1]..CaseRanges[i][2]
                    /\ (r - CaseRanges[i][1]) % CaseRanges[i][3] = 0 }
    IN IF hits = {} THEN r ELSE r + CaseRanges[CHOOSE i \in hits : TRUE][4]

\* strings.Map(unicode.ToLower, s): every character is replaced by its lower
\* case and every byte that starts no well-formed encoding by U+FFFD
RECURSIVE LowerFrom(_)
LowerFrom(s) ==
    IF Len(s) = 0 THEN ""
    ELSE IF SubSeq(s, 1, 1) \notin HighByteSet
         THEN LowerChar(SubSeq(s, 1, 1)) \o LowerFrom(SubSeq(s, 2, Len(s)))
    ELSE EncodeRune(UnicodeToLower(DecodeRune(s).rune))
         \o LowerFrom(SubSeq(s, DecodeRune(s).width + 1, Len(s)))

\* the bytes that send strings.ToLower past its first return: a capital A..Z
\* or a byte that is not ASCII
UpperOrNotASCII == Capitals \cup HighByteSet

\* strings.ToLower: an ASCII string without a capital is returned as it is;
\* otherwise every character is replaced by its lower case
ToLower(s) ==
    IF \A i \in 1..Len(s) : SubSeq(s, i, i) \notin UpperOrNotASCII THEN s ELSE LowerFrom(s)

\* U+0130 LATIN CAPITAL LETTER I WITH DOT ABOVE, whose lower case is "i"
CapitalIWithDot == "Ä°"

Contains(s, substr) ==
    \E i \in 1..(Len(s) - Len(substr) + 1) : SubSeq(s, i, i + Len(substr) - 1) = substr

(***************************************************************************)
(* Protocol values                                                         *)
(***************************************************************************)
StatusCode_Continue == 100
StatusCode_Unauthorized == 401

HeaderValue(k, v) == [key |-> k, value |-> v]

\* main.go's HeaderMutation: a oneof Action, Append{Header} or Remove
AppendMutation(k, v) == [action |-> "Append", header |-> HeaderValue(k, v)]
RemoveMutation(k) == [action |-> "Remove", remove |-> k]

\* ProcessingResponse_RequestHeaders{HeadersResponse{CommonResponse{Status, HeaderMutation}}}
HeadersResponse(mutation) ==
    [response |-> "RequestHeaders", status |-> "CONTINUE", headerMutation |-> mutation]

\* ProcessingResponse_ImmediateResponse{ImmediateResponse{Status, Headers, Body}}
ImmediateResponse(code, hdrs, b) ==
    [response |-> "ImmediateResponse", status |-> code, headers |-> hdrs, body |-> b]

NoResponse == [response |-> "none"]
NoRequest == [kind |-> "none", headers |-> <<>>, nilHeaderMap |-> FALSE]
NoLocals == [instructionsValue |-> "", requestPath |-> "", hasAuth |-> FALSE]
NoSend == [n |-> 0, answers |-> 0, response |-> NoResponse]
NoProbe == [status |-> 0, body |-> ""]
NoDirective == [wellFormed |-> FALSE, addHeaders |-> <<>>, removeHeaders |-> <<>>]

(***************************************************************************)
(* src/main.go: parseInstructions                                          *)
(***************************************************************************)
\* mutant: the removeHeaders section is handled before the addHeaders section
parseInstructionsRemovesFirst(instructionsJSON) ==
    LET m0 == <<>>
        m1 == IF Contains(instructionsJSON, "\"removeHeaders\"")
                 /\ Contains(instructionsJSON, "\"header2\"")
              THEN Append(m0, RemoveMutation("header2")) ELSE m0
        m2 == IF Contains(instructionsJSON, "\"removeHeaders\"")
                 /\ Contains(instructionsJSON, "\"instructions\"")
              THEN Append(m1, RemoveMutation("instructions")) ELSE m1
        m3 == IF Contains(instructionsJSON, "\"header3\":\"value3\"")
              THEN Append(m2, AppendMutation("header3", "value3")) ELSE m2
        m4 == IF Contains(instructionsJSON, "\"header4\":\"value4\"")
              THEN Append(m3, AppendMutation("header4", "value4")) ELSE m3
    IN m4

\* mutant: the directive header is removed whenever a directive was consumed
parseInstructionsAlwaysRemove(instructionsJSON) ==
    LET m0 == <<>>
        m1 == IF Contains(instructionsJSON, "\"header3\":\"value3\"")
              THEN Append(m0, AppendMutation("header3", "value3")) ELSE m0
        m2 == IF Contains(instructionsJSON, "\"header4\":\"value4\"")
              THEN Append(m1, AppendMutation("header4", "value4")) ELSE m1
        m3 == IF Contains(instructionsJSON, "\"removeHeaders\"")
                 /\ Contains(instructionsJSON, "\"header2\"")
              THEN Append(m2, RemoveMutation("header2")) ELSE m2
    IN Append(m3, RemoveMutation("instructions"))

parseInstructions(instructionsJSON) ==
    LET m0 == <<>>
        m1 == IF Contains(instructionsJSON, "\"header3\":\"value3\"")
              THEN Append(m0, AppendMutation("header3", "value3")) ELSE m0
        m2 == IF Contains(instructionsJSON, "\"header4\":\"value4\"")
              THEN Append(m1, AppendMutation("header4", "value4")) ELSE m1
        m3 == IF Contains(instructionsJSON, "\"removeHeaders\"")
                 /\ Contains(instructionsJSON, "\"header2\"")
              THEN Append(m2, RemoveMutation("header2")) ELSE m2
        m4 == IF Contains(instructionsJSON, "\"removeHeaders\"")
                 /\ Contains(instructionsJSON, "\"instructions\"")
              THEN Append(m3, RemoveMutation("instructions")) ELSE m3
    IN m4

(***************************************************************************)
(* src/main.go: processRequestHeaders                                      *)
(***************************************************************************)
\* mutant: the stamp emitted as an overwrite instead of an Append
StampAsOverwrite ==
    [action |-> "SetHeader",
     header |-> HeaderValue("x-processed-by", "eag-extproc-service"),
     appendAction |-> "OVERWRITE_IF_EXISTS_OR_ADD"]

\* stage 1 (lines 73-83)
StampMutation == AppendMutation("x-processed-by", "eag-extproc-service")

\* mutant: the first occurrence of a header wins (the loop stops capturing)
ExtractStepFirstWins(acc, header) ==
    LET k == ToLower(header.key) IN
    CASE k = "instructions" /\ acc.instructionsValue = ""
             -> [acc EXCEPT !.instructionsValue = header.value]
      [] k = ":path" /\ acc.requestPath = ""
             -> [acc EXCEPT !.requestPath = header.value]
      [] k = "authorization" -> [acc EXCEPT !.hasAuth = TRUE]
      [] OTHER -> acc

\* mutant: an authorization header counts only when it carries a value
ExtractStepAuthNonEmpty(acc, header) ==
    LET k == ToLower(header.key) IN
    CASE k = "instructions" -> [acc EXCEPT !.instructionsValue = header.value]
      [] k = ":path"        -> [acc EXCEPT !.requestPath = header.value]
      [] k = "authorization" -> [acc EXCEPT !.hasAuth = (header.value # "")]
      [] OTHER -> acc

\* one iteration of the extraction loop (lines 90-107)
ExtractStep(acc, header) ==
    LET k == ToLower(header.key) IN
    CASE k = "instructions" -> [acc EXCEPT !.instructionsValue = header.value]
      [] k = ":path"        -> [acc EXCEPT !.requestPath = header.value]
      [] k = "authorization" -> [acc EXCEPT !.hasAuth = TRUE]
      [] OTHER -> acc

RECURSIVE ExtractFrom(_, _)
ExtractFrom(acc, hs) ==
    IF hs = <<>> THEN acc ELSE ExtractFrom(ExtractStep(acc, Head(hs)), Tail(hs))

\* stage 2 (lines 85-107): the locals after the loop over headers.Headers.Headers
Extract(headers) == ExtractFrom(NoLocals, headers)

\* mutant: the /admin rule is evaluated before the /api/v1 rule
PathMutationsAdminFirst(requestPath) ==
    LET m1 == <<StampMutation>>
        m2 == IF Contains(requestPath, "/admin")
              THEN Append(m1, AppendMutation("x-admin-access", "true")) ELSE m1
        m3 == IF Contains(requestPath, "/api/v1")
              THEN Append(m2, AppendMutation("x-api-version", "v1")) ELSE m2
    IN m3

\* stage 3 (lines 109-134): the mutation list after the two path rules
PathMutations(requestPath) ==
    LET m1 == <<StampMutation>>
        m2 == IF Contains(requestPath, "/api/v1")
              THEN Append(m1, AppendMutation("x-api-version", "v1")) ELSE m1
        m3 == IF Contains(requestPath, "/admin")
              THEN Append(m2, AppendMutation("x-admin-access", "true")) ELSE m2
    IN m3

\* mutant: the gate compares the whole path instead of searching it
SecurityCheckExactPath(l) == l.requestPath = "/protected" /\ ~l.hasAuth

\* mutant: the gate forgets the path and blocks every request without authorization
SecurityCheckAuthOnly(l) == ~l.hasAuth

\* stage 4 (lines 136-157)
SecurityCheck(l) == Contains(l.requestPath, "/protected") /\ ~l.hasAuth

UnauthorizedResponse ==
    ImmediateResponse(StatusCode_Unauthorized,
                      <<HeaderValue("content-type", "application/json")>>,
                      "{\"error\": \"Authorization required\"}")

\* mutant: the directive's mutations are put in front of the accumulated ones
processRequestHeadersDirectiveFirst(headers) ==
    LET l == Extract(headers)
        headerMutations == PathMutations(l.requestPath)
    IN IF SecurityCheck(l)
       THEN UnauthorizedResponse
       ELSE HeadersResponse(
                IF l.instructionsValue # ""
                THEN parseInstructions(l.instructionsValue) \o headerMutations
                ELSE headerMutations)

processRequestHeaders(headers) ==
    LET l == Extract(headers)
        headerMutations == PathMutations(l.requestPath)
    IN IF SecurityCheck(l)
       THEN UnauthorizedResponse
       ELSE HeadersResponse(
                IF l.instructionsValue # ""
                THEN headerMutations \o parseInstructions(l.instructionsValue)
                ELSE headerMutations)

\* the calls processRequestHeaders makes, in order (lines 136-163)
processRequestHeadersCallees(headers) ==
    LET l == Extract(headers)
    IN IF SecurityCheck(l) THEN <<>>
       ELSE IF l.instructionsValue # "" THEN <<"parseInstructions">> ELSE <<>>

(***************************************************************************)
(* src/unnamed/part_000: addProcessedByHeader                              *)
(***************************************************************************)
\* HeaderMutation{SetHeaders: [HeaderValueOption{Header, AppendAction}]}: the mutation
\* is its SetHeaders list, one entry per HeaderValueOption (lines 72-82)
SetHeaderMutation(k, v, how) ==
    [action |-> "SetHeader", header |-> HeaderValue(k, v), appendAction |-> how]

addProcessedByHeader(headers) ==
    HeadersResponse(
        << SetHeaderMutation("x-processed-by", "ext-proc-go-server",
                             "OVERWRITE_IF_EXISTS_OR_ADD") >>)

(***************************************************************************)
(* Inputs                                                                  *)
(***************************************************************************)
FullDirective ==
    "{\"addHeaders\":{\"header3\":\"value3\",\"header4\":\"value4\"},\"removeHeaders\":[\"header2\",\"instructions\"]}"

\* the payload format parseInstructions documents (line 180):
\* {"addHeaders":{"key":"value"},"removeHeaders":["key1","key2"]}
Quote(s) == "\"" \o s \o "\""

RECURSIVE JoinPairs(_)
JoinPairs(pairs) ==
    IF pairs = <<>> THEN ""
    ELSE Quote(Head(pairs)[1]) \o ":" \o Quote(Head(pairs)[2])
         \o (IF Len(pairs) > 1 THEN "," ELSE "") \o JoinPairs(Tail(pairs))

RECURSIVE JoinKeys(_)
JoinKeys(keys) ==
    IF keys = <<>> THEN ""
    ELSE Quote(Head(keys)) \o (IF Len(keys) > 1 THEN "," ELSE "") \o JoinKeys(Tail(keys))

EncodeDirective(d) ==
    "{\"addHeaders\":{" \o JoinPairs(d.addHeaders)
        \o "},\"removeHeaders\":[" \o JoinKeys(d.removeHeaders) \o "]}"

\* the key/value pairs and the keys directives are built from
AddPool ==
    { <<"header3", "value3">>, <<"header4", "value4">>, <<"x-custom", "1">>,
      <<"header2", "x">>, <<"instructions", "y">> }

RemovePool == {"header2", "instructions", "x-old", "header3"}

\* the sequences over S of length at most n without repetition
DistinctSeqs(S, n) ==
    UNION { { q \in [1..k -> S] : \A i, j \in 1..k : i # j => q[i] # q[j] } : k \in 0..n }

Directives ==
    { [wellFormed |-> TRUE, addHeaders |-> a, removeHeaders |-> r] :
        a \in DistinctSeqs(AddPool, MaxAdds), r \in DistinctSeqs(RemovePool, MaxRemoves) }

\* payloads that are empty, or not an object with an addHeaders mapping and a
\* removeHeaders list
MalformedPayloads ==
    { "",
      "not json",
      "\"header3\":\"value3\"",
      "{\"addHeaders\":{\"header4\":\"value4\"",
      "removeHeaders header2",
      "[\"removeHeaders\",\"header2\",\"instructions\"]",
      "\"removeHeaders\"",
      "}{" }

\* header entries a RequestHeaders message is built from
HeaderPool ==
    { HeaderValue(":path", "/api/v1/anything"),
      HeaderValue(":path", "/admin/x/api/v1"),
      HeaderValue(":path", "/api/v1/admin"),
      HeaderValue(":path", "/protected"),
      HeaderValue(":Path", "/protected/admin/api/v1"),
      HeaderValue(":path", "/public"),
      HeaderValue("path", "/protected"),
      HeaderValue("instructions", FullDirective),
      HeaderValue("Instructions", "{\"removeHeaders\":[\"header2\"]}"),
      HeaderValue("instructions", "not json"),
      HeaderValue("instructions", ""),
      HeaderValue("authorization", "Bearer t"),
      HeaderValue("Author" \o CapitalIWithDot \o "zation", ""),
      HeaderValue("x-processed-by", "upstream") }

HeaderSeqs == UNION { [1..n -> HeaderPool] : n \in 0..MaxHeaders }

\* the header lists of the RequestHeaders messages delivered on the streams
StreamHeaderSeqs ==
    { << HeaderValue(":path", "/protected") >>,
      << HeaderValue(":path", "/api/v1/anything"), HeaderValue("authorization", "Bearer t") >>,
      << HeaderValue(":path", "/admin/x/api/v1"), HeaderValue("instructions", FullDirective) >> }

OtherKinds ==
    {"RequestBody", "RequestTrailers", "ResponseHeaders", "ResponseBody", "ResponseTrailers"}

\* ProcessingRequest: the oneof Request, with the header list of a RequestHeaders
EventPool ==
    { [kind |-> "RequestHeaders", headers |-> h, nilHeaderMap |-> FALSE] : h \in StreamHeaderSeqs }
    \cup { [kind |-> k, headers |-> <<>>, nilHeaderMap |-> FALSE] : k \in OtherKinds }

\* a RequestHeaders message without a header map: HttpHeaders.Headers is nil
NilHeadersEvent == [kind |-> "RequestHeaders", headers |-> <<>>, nilHeaderMap |-> TRUE]

(***************************************************************************)
(* src/main.go: Process                                                    *)
(***************************************************************************)
\* the default branch's response (lines 49-57)
DefaultResponse == ImmediateResponse(StatusCode_Continue, <<>>, "")

\* the type switch (lines 38-57): the response built for a received request
ProcessResponse(r) ==
    IF r.kind = "RequestHeaders" THEN processRequestHeaders(r.headers) ELSE DefaultResponse

\* line 90: headers.Headers.Headers dereferences the nil header map
Panics(r) == r.kind = "RequestHeaders" /\ r.nilHeaderMap

\* lines 40, 90: processRequestHeaders panics on request r of stream s; nothing
\* recovers, so the process ends and with it every worker still in its loop
ProcessPanic(s, r) ==
    /\ req' = [req EXCEPT ![s] = r]
    /\ nRecv' = [nRecv EXCEPT ![s] = @ + 1]
    /\ nPipeline' = [nPipeline EXCEPT ![s] = @ + 1]
    /\ nHeaderEvents' = [nHeaderEvents EXCEPT ![s] = @ + 1]
    /\ lastIO' = [lastIO EXCEPT ![s] = "Panic"]
    /\ pc' = [t \in Streams |-> IF pc[t] = "Returned" THEN "Returned" ELSE "Crashed"]
    /\ mainPc' = "exited"
    /\ primary' = "stopped"
    /\ UNCHANGED <<revision, resp, ret, nSent, lastSent>>
    /\ UNCHANGED fnVars
    /\ UNCHANGED <<aux, health, probe, nProbes>>

\* mutant: the mutation list lives on the server object and is not reset between
\* requests, so a later response still carries the previous stamp
ProcessRecvStateful(s) ==
    /\ revision = "main.go"
    /\ pc[s] = "Recv"
    /\ nRecv[s] < MaxEvents
    /\ \E r \in EventPool \cup {NilHeadersEvent} :
        \/ /\ Panics(r)
           /\ ProcessPanic(s, r)
        \/ /\ ~Panics(r)
           /\ req' = [req EXCEPT ![s] = r]
           /\ resp' = [resp EXCEPT ![s] =
                   IF nPipeline[s] > 0 /\ ProcessResponse(r).response = "RequestHeaders"
                   THEN HeadersResponse(<<StampMutation>> \o ProcessResponse(r).headerMutation)
                   ELSE ProcessResponse(r)]
           /\ nPipeline' = [nPipeline EXCEPT ![s] = @ + (IF r.kind = "RequestHeaders" THEN 1 ELSE 0)]
           /\ nHeaderEvents' = [nHeaderEvents EXCEPT ![s] = @ + (IF r.kind = "RequestHeaders" THEN 1 ELSE 0)]
           /\ nRecv' = [nRecv EXCEPT ![s] = @ + 1]
           /\ lastIO' = [lastIO EXCEPT ![s] = "RecvOk"]
           /\ pc' = [pc EXCEPT ![s] = "Send"]
           /\ UNCHANGED <<revision, ret, nSent, lastSent>>
           /\ UNCHANGED fnVars
           /\ UNCHANGED mainVars

\* lines 27, 38-57: Recv delivers a request; the switch builds its response,
\* or processRequestHeaders panics on a missing header map
ProcessRecv(s) ==
    /\ revision = "main.go"
    /\ pc[s] = "Recv"
    /\ nRecv[s] < MaxEvents
    /\ \E r \in EventPool \cup {NilHeadersEvent} :
        \/ /\ Panics(r)
           /\ ProcessPanic(s, r)
        \/ /\ ~Panics(r)
           /\ req' = [req EXCEPT ![s] = r]
           /\ resp' = [resp EXCEPT ![s] = ProcessResponse(r)]
           /\ nPipeline' = [nPipeline EXCEPT ![s] = @ + (IF r.kind = "RequestHeaders" THEN 1 ELSE 0)]
           /\ nHeaderEvents' = [nHeaderEvents EXCEPT ![s] = @ + (IF r.kind = "RequestHeaders" THEN 1 ELSE 0)]
           /\ nRecv' = [nRecv EXCEPT ![s] = @ + 1]
           /\ lastIO' = [lastIO EXCEPT ![s] = "RecvOk"]
           /\ pc' = [pc EXCEPT ![s] = "Send"]
           /\ UNCHANGED <<revision, ret, nSent, lastSent>>
           /\ UNCHANGED fnVars
           /\ UNCHANGED mainVars

\* lines 27-31: Recv reports io.EOF; return nil
ProcessRecvEOF(s) ==
    /\ revision = "main.go"
    /\ pc[s] = "Recv"
    /\ lastIO' = [lastIO EXCEPT ![s] = "RecvEOF"]
    /\ pc' = [pc EXCEPT ![s] = "Returned"]
    /\ ret' = [ret EXCEPT ![s] = "nil"]
    /\ UNCHANGED <<revision, req, resp, nRecv, nSent, lastSent, nPipeline, nHeaderEvents>>
    /\ UNCHANGED fnVars
    /\ UNCHANGED mainVars

\* lines 27, 32-35: Recv fails; return status.Errorf(codes.Internal, ...)
ProcessRecvError(s) ==
    /\ revision = "main.go"
    /\ pc[s] = "Recv"
    /\ lastIO' = [lastIO EXCEPT ![s] = "RecvErr"]
    /\ pc' = [pc EXCEPT ![s] = "Returned"]
    /\ ret' = [ret EXCEPT ![s] = "Internal: failed to receive request"]
    /\ UNCHANGED <<revision, req, resp, nRecv, nSent, lastSent, nPipeline, nHeaderEvents>>
    /\ UNCHANGED fnVars
    /\ UNCHANGED mainVars

\* lines 41, 58: Send accepts the response; back to the top of the loop
ProcessSend(s) ==
    /\ revision = "main.go"
    /\ pc[s] = "Send"
    /\ lastIO' = [lastIO EXCEPT ![s] = "SendOk"]
    /\ nSent' = [nSent EXCEPT ![s] = @ + 1]
    /\ lastSent' = [lastSent EXCEPT ![s] =
                       [n |-> nSent[s] + 1, answers |-> nRecv[s], response |-> resp[s]]]
    /\ resp' = [resp EXCEPT ![s] = NoResponse]
    /\ pc' = [pc EXCEPT ![s] = "Recv"]
    /\ UNCHANGED <<revision, req, ret, nRecv, nPipeline, nHeaderEvents>>
    /\ UNCHANGED fnVars
    /\ UNCHANGED mainVars

\* mutant: a failed Send ends the process (log.Fatalf), and with it every worker
ProcessSendErrorFatal(s) ==
    /\ revision = "main.go"
    /\ pc[s] = "Send"
    /\ lastIO' = [lastIO EXCEPT ![s] = "SendErr"]
    /\ pc' = [t \in Streams |-> "Returned"]
    /\ ret' = [t \in Streams |-> "send error"]
    /\ UNCHANGED <<revision, req, resp, nRecv, nSent, lastSent, nPipeline, nHeaderEvents>>
    /\ UNCHANGED fnVars
    /\ UNCHANGED mainVars

\* lines 41-44, 58-61: Send fails; return err
ProcessSendError(s) ==
    /\ revision = "main.go"
    /\ pc[s] = "Send"
    /\ lastIO' = [lastIO EXCEPT ![s] = "SendErr"]
    /\ pc' = [pc EXCEPT ![s] = "Returned"]
    /\ ret' = [ret EXCEPT ![s] = "send error"]
    /\ UNCHANGED <<revision, req, resp, nRecv, nSent, lastSent, nPipeline, nHeaderEvents>>
    /\ UNCHANGED fnVars
    /\ UNCHANGED mainVars

(***************************************************************************)
(* src/unnamed/part_000: Process                                           *)
(***************************************************************************)
\* lines 35, 47-64: Recv delivers a request; only RequestHeaders gets a response
Process0Recv(s) ==
    /\ revision = "part_000"
    /\ pc[s] = "Recv"
    /\ nRecv[s] < MaxEvents
    /\ \E r \in EventPool :
        /\ req' = [req EXCEPT ![s] = r]
        /\ IF r.kind = "RequestHeaders"
           THEN /\ resp' = [resp EXCEPT ![s] = addProcessedByHeader(r.headers)]
                /\ nPipeline' = [nPipeline EXCEPT ![s] = @ + 1]
                /\ nHeaderEvents' = [nHeaderEvents EXCEPT ![s] = @ + 1]
                /\ pc' = [pc EXCEPT ![s] = "Send"]
           ELSE /\ UNCHANGED <<resp, nPipeline, nHeaderEvents, pc>>
    /\ nRecv' = [nRecv EXCEPT ![s] = @ + 1]
    /\ lastIO' = [lastIO EXCEPT ![s] = "RecvOk"]
    /\ UNCHANGED <<revision, ret, nSent, lastSent>>
    /\ UNCHANGED fnVars
    /\ UNCHANGED mainVars

\* lines 35-40: Recv reports io.EOF; return nil
Process0RecvEOF(s) ==
    /\ revision = "part_000"
    /\ pc[s] = "Recv"
    /\ lastIO' = [lastIO EXCEPT ![s] = "RecvEOF"]
    /\ pc' = [pc EXCEPT ![s] = "Returned"]
    /\ ret' = [ret EXCEPT ![s] = "nil"]
    /\ UNCHANGED <<revision, req, resp, nRecv, nSent, lastSent, nPipeline, nHeaderEvents>>
    /\ UNCHANGED fnVars
    /\ UNCHANGED mainVars

\* lines 35, 41-45: Recv fails; return err
Process0RecvError(s) ==
    /\ revision = "part_000"
    /\ pc[s] = "Recv"
    /\ lastIO' = [lastIO EXCEPT ![s] = "RecvErr"]
    /\ pc' = [pc EXCEPT ![s] = "Returned"]
    /\ ret' = [ret EXCEPT ![s] = "recv error"]
    /\ UNCHANGED <<revision, req, resp, nRecv, nSent, lastSent, nPipeline, nHeaderEvents>>
    /\ UNCHANGED fnVars
    /\ UNCHANGED mainVars

\* lines 54-60: Send accepts the response; back to the top of the loop
Process0Send(s) ==
    /\ revision = "part_000"
    /\ pc[s] = "Send"
    /\ lastIO' = [lastIO EXCEPT ![s] = "SendOk"]
    /\ nSent' = [nSent EXCEPT ![s] = @ + 1]
    /\ lastSent' = [lastSent EXCEPT ![s] =
                       [n |-> nSent[s] + 1, answers |-> nRecv[s], response |-> resp[s]]]
    /\ resp' = [resp EXCEPT ![s] = NoResponse]
    /\ pc' = [pc EXCEPT ![s] = "Recv"]
    /\ UNCHANGED <<revision, req, ret, nRecv, nPipeline, nHeaderEvents>>
    /\ UNCHANGED fnVars
    /\ UNCHANGED mainVars

\* mutant: a failed Send marks the service as not serving
Process0SendErrorNotServing(s) ==
    /\ revision = "part_000"
    /\ pc[s] = "Send"
    /\ lastIO' = [lastIO EXCEPT ![s] = "SendErr"]
    /\ pc' = [pc EXCEPT ![s] = "Returned"]
    /\ ret' = [ret EXCEPT ![s] = "send error"]
    /\ health' = [health EXCEPT !["ext-proc"] = "NOT_SERVING"]
    /\ UNCHANGED <<revision, req, resp, nRecv, nSent, lastSent, nPipeline, nHeaderEvents>>
    /\ UNCHANGED fnVars
    /\ UNCHANGED <<mainPc, primary, aux, probe, nProbes>>

\* lines 54-58: Send fails; return err
Process0SendError(s) ==
    /\ revision = "part_000"
    /\ pc[s] = "Send"
    /\ lastIO' = [lastIO EXCEPT ![s] = "SendErr"]
    /\ pc' = [pc EXCEPT ![s] = "Returned"]
    /\ ret' = [ret EXCEPT ![s] = "send error"]
    /\ UNCHANGED <<revision, req, resp, nRecv, nSent, lastSent, nPipeline, nHeaderEvents>>
    /\ UNCHANGED fnVars
    /\ UNCHANGED mainVars

(***************************************************************************)
(* src/unnamed/part_000: main and the /health server                       *)
(***************************************************************************)
HealthNames == {"", "ext-proc"}

\* line 100: the goroutine of the /health server is started
Main0SpawnHealth ==
    /\ revision = "part_000"
    /\ mainPc = "start"
    /\ aux' = "starting"
    /\ mainPc' = "listen"
    /\ UNCHANGED <<revision, primary, health, probe, nProbes>>
    /\ UNCHANGED streamVars
    /\ UNCHANGED fnVars

\* lines 102-109: the handler is registered and ListenAndServe binds :8080
AuxListen ==
    /\ aux = "starting"
    /\ aux' = "up"
    /\ UNCHANGED <<revision, mainPc, primary, health, probe, nProbes>>
    /\ UNCHANGED streamVars
    /\ UNCHANGED fnVars

\* mutant: a failed ListenAndServe ends the process (log.Fatalf)
AuxListenFailureFatal ==
    /\ aux \in {"starting", "up"}
    /\ aux' = "failed"
    /\ mainPc' = "exited"
    /\ primary' = IF primary = "unbound" THEN "unbound" ELSE "stopped"
    /\ UNCHANGED <<revision, health, probe, nProbes>>
    /\ pc' = [t \in Streams |-> IF pc[t] = "Returned" THEN "Returned" ELSE "Crashed"]
    /\ UNCHANGED <<req, resp, ret, lastIO, nRecv, nSent, lastSent, nPipeline, nHeaderEvents>>
    /\ UNCHANGED fnVars

\* lines 109-111: ListenAndServe returns its error, at the bind or after the
\* listener was up; the failure is logged and the goroutine ends
AuxListenFailure ==
    /\ aux \in {"starting", "up"}
    /\ aux' = "failed"
    /\ UNCHANGED <<revision, mainPc, primary, health, probe, nProbes>>
    /\ UNCHANGED streamVars
    /\ UNCHANGED fnVars

\* mutant: the handler reports the registry's overall status
HealthGetFromRegistry ==
    /\ aux = "up"
    /\ nProbes < MaxProbes
    /\ probe' = IF health[""] = "SERVING" THEN [status |-> 200, body |-> "OK"]
                ELSE [status |-> 503, body |-> "NOT_SERVING"]
    /\ nProbes' = nProbes + 1
    /\ UNCHANGED <<revision, mainPc, primary, aux, health>>
    /\ UNCHANGED streamVars
    /\ UNCHANGED fnVars

\* lines 102-105: GET /health is answered http.StatusOK with body "OK"
HealthGet ==
    /\ aux = "up"
    /\ nProbes < MaxProbes
    /\ probe' = [status |-> 200, body |-> "OK"]
    /\ nProbes' = nProbes + 1
    /\ UNCHANGED <<revision, mainPc, primary, aux, health>>
    /\ UNCHANGED streamVars
    /\ UNCHANGED fnVars

\* line 115: net.Listen binds :9001
Main0Listen ==
    /\ revision = "part_000"
    /\ mainPc = "listen"
    /\ primary' = "bound"
    /\ mainPc' = "newHealthServer"
    /\ UNCHANGED <<revision, aux, health, probe, nProbes>>
    /\ UNCHANGED streamVars
    /\ UNCHANGED fnVars

\* lines 115-118: net.Listen fails; log.Fatalf ends the process and its goroutines
Main0ListenFailure ==
    /\ revision = "part_000"
    /\ mainPc = "listen"
    /\ primary' = "failed"
    /\ mainPc' = "exited"
    /\ aux' = "down"
    /\ UNCHANGED <<revision, health, probe, nProbes>>
    /\ pc' = [t \in Streams |-> IF pc[t] = "Returned" THEN "Returned" ELSE "Crashed"]
    /\ UNCHANGED <<req, resp, ret, lastIO, nRecv, nSent, lastSent, nPipeline, nHeaderEvents>>
    /\ UNCHANGED fnVars

\* mutant: the health server is created before the listener is bound
Main0NewHealthServerEarly ==
    /\ revision = "part_000"
    /\ mainPc \in {"listen", "newHealthServer"}
    /\ health[""] # "SERVING"
    /\ health' = [health EXCEPT ![""] = "SERVING"]
    /\ mainPc' = IF mainPc = "listen" THEN "listen" ELSE "newGrpc"
    /\ UNCHANGED <<revision, primary, aux, probe, nProbes>>
    /\ UNCHANGED streamVars
    /\ UNCHANGED fnVars

\* lines 122-131: grpc.NewServer, the ExtProc registration, and
\* grpchealth.NewServer, whose status map starts with "" set to SERVING
Main0NewHealthServer ==
    /\ revision = "part_000"
    /\ mainPc = "newHealthServer"
    /\ health' = [health EXCEPT ![""] = "SERVING"]
    /\ mainPc' = "newGrpc"
    /\ UNCHANGED <<revision, primary, aux, probe, nProbes>>
    /\ UNCHANGED streamVars
    /\ UNCHANGED fnVars

\* lines 132-136: healthchecker.NewGrpc("ext-proc", healthServer, false, SERVING)
\* sets the service's status; the health service is registered
Main0NewGrpc ==
    /\ revision = "part_000"
    /\ mainPc = "newGrpc"
    /\ health' = [health EXCEPT !["ext-proc"] = "SERVING"]
    /\ mainPc' = "serve"
    /\ UNCHANGED <<revision, primary, aux, probe, nProbes>>
    /\ UNCHANGED streamVars
    /\ UNCHANGED fnVars

\* line 146: grpcServer.Serve(lis) starts accepting streams
Main0Serve ==
    /\ revision = "part_000"
    /\ mainPc = "serve"
    /\ primary' = "serving"
    /\ mainPc' = "serving"
    /\ UNCHANGED <<revision, aux, health, probe, nProbes>>
    /\ UNCHANGED streamVars
    /\ UNCHANGED fnVars

\* lines 146-148: Serve returns an error; log.Fatalf ends the process
Main0ServeFailure ==
    /\ revision = "part_000"
    /\ mainPc \in {"serve", "serving"}
    /\ primary' = "stopped"
    /\ mainPc' = "exited"
    /\ aux' = "down"
    /\ UNCHANGED <<revision, health, probe, nProbes>>
    /\ pc' = [t \in Streams |-> IF pc[t] = "Returned" THEN "Returned" ELSE "Crashed"]
    /\ UNCHANGED <<req, resp, ret, lastIO, nRecv, nSent, lastSent, nPipeline, nHeaderEvents>>
    /\ UNCHANGED fnVars

(***************************************************************************)
(* src/main.go: main                                                       *)
(***************************************************************************)
\* line 244: net.Listen binds :9001
MainListen ==
    /\ revision = "main.go"
    /\ mainPc = "listen"
    /\ primary' = "bound"
    /\ mainPc' = "serve"
    /\ UNCHANGED <<revision, aux, health, probe, nProbes>>
    /\ UNCHANGED streamVars
    /\ UNCHANGED fnVars

\* lines 244-247: net.Listen fails; log.Fatalf ends the process
MainListenFailure ==
    /\ revision = "main.go"
    /\ mainPc = "listen"
    /\ primary' = "failed"
    /\ mainPc' = "exited"
    /\ UNCHANGED <<revision, aux, health, probe, nProbes>>
    /\ pc' = [t \in Streams |-> IF pc[t] = "Returned" THEN "Returned" ELSE "Crashed"]
    /\ UNCHANGED <<req, resp, ret, lastIO, nRecv, nSent, lastSent, nPipeline, nHeaderEvents>>
    /\ UNCHANGED fnVars

\* lines 249-255: the server is created and registered; Serve starts accepting streams
MainServe ==
    /\ revision = "main.go"
    /\ mainPc = "serve"
    /\ primary' = "serving"
    /\ mainPc' = "serving"
    /\ UNCHANGED <<revision, aux, health, probe, nProbes>>
    /\ UNCHANGED streamVars
    /\ UNCHANGED fnVars

\* lines 255-257: Serve returns an error; log.Fatalf ends the process
MainServeFailure ==
    /\ revision = "main.go"
    /\ mainPc \in {"serve", "serving"}
    /\ primary' = "stopped"
    /\ mainPc' = "exited"
    /\ UNCHANGED <<revision, aux, health, probe, nProbes>>
    /\ pc' = [t \in Streams |-> IF pc[t] = "Returned" THEN "Returned" ELSE "Crashed"]
    /\ UNCHANGED <<req, resp, ret, lastIO, nRecv, nSent, lastSent, nPipeline, nHeaderEvents>>
    /\ UNCHANGED fnVars

(***************************************************************************)
(* The functions applied to one header list                                *)
(***************************************************************************)
\* src/main.go lines 67-177, applied to arg
CallProcessRequestHeaders ==
    /\ revision = "main.go"
    /\ fn = "none"
    /\ fn' = "processRequestHeaders"
    /\ locals' = Extract(arg)
    /\ callees' = processRequestHeadersCallees(arg)
    /\ result' = processRequestHeaders(arg)
    /\ UNCHANGED <<revision, arg, directive>>
    /\ UNCHANGED streamVars
    /\ UNCHANGED mainVars

\* src/unnamed/part_000 lines 69-93, applied to arg
CallAddProcessedByHeader ==
    /\ revision = "part_000"
    /\ fn = "none"
    /\ fn' = "addProcessedByHeader"
    /\ result' = addProcessedByHeader(arg)
    /\ UNCHANGED <<revision, arg, directive, locals, callees>>
    /\ UNCHANGED streamVars
    /\ UNCHANGED mainVars

\* src/main.go lines 136-163: the call of parseInstructions that
\* processRequestHeaders makes on the captured directive of arg
CallCapturedParseInstructions ==
    /\ revision = "main.go"
    /\ fn = "none"
    /\ ~SecurityCheck(Extract(arg))
    /\ Extract(arg).instructionsValue # ""
    /\ fn' = "parseInstructions"
    /\ locals' = Extract(arg)
    /\ result' = parseInstructions(Extract(arg).instructionsValue)
    /\ UNCHANGED <<revision, arg, directive, callees>>
    /\ UNCHANGED streamVars
    /\ UNCHANGED mainVars

\* src/main.go lines 181-240, applied to the payload arg
CallParseInstructions ==
    /\ revision = "main.go"
    /\ fn = "none"
    /\ fn' = "parseInstructions"
    /\ result' = parseInstructions(arg)
    /\ UNCHANGED <<revision, arg, directive, locals, callees>>
    /\ UNCHANGED streamVars
    /\ UNCHANGED mainVars

(***************************************************************************)
(* Specifications                                                          *)
(***************************************************************************)
\* every accepted stream starts at the top of Process' loop
InitStreams ==
    /\ pc = [s \in Streams |-> "Recv"]
    /\ req = [s \in Streams |-> NoRequest]
    /\ resp = [s \in Streams |-> NoResponse]
    /\ ret = [s \in Streams |-> "running"]
    /\ lastIO = [s \in Streams |-> "none"]
    /\ nRecv = [s \in Streams |-> 0]
    /\ nSent = [s \in Streams |-> 0]
    /\ lastSent = [s \in Streams |-> NoSend]
    /\ nPipeline = [s \in Streams |-> 0]
    /\ nHeaderEvents = [s \in Streams |-> 0]

InitFn ==
    /\ fn = "none"
    /\ directive = NoDirective
    /\ locals = NoLocals
    /\ callees = <<>>
    /\ result = NoResponse

\* the process after a successful startup: the server accepts streams
InitServing ==
    /\ mainPc = "serving"
    /\ primary = "serving"
    /\ aux = IF revision = "part_000" THEN "up" ELSE "none"
    /\ health = [n \in HealthNames |-> IF revision = "part_000" THEN "SERVING" ELSE "UNKNOWN"]
    /\ probe = NoProbe
    /\ nProbes = 0

\* the streams of one running server
Init ==
    /\ revision \in Revisions
    /\ InitServing
    /\ InitStreams
    /\ InitFn
    /\ arg = <<>>

Next ==
    \E s \in Streams :
        \/ ProcessRecv(s)
        \/ ProcessRecvEOF(s)
        \/ ProcessRecvError(s)
        \/ ProcessSend(s)
        \/ ProcessSendError(s)
        \/ Process0Recv(s)
        \/ Process0RecvEOF(s)
        \/ Process0RecvError(s)
        \/ Process0Send(s)
        \/ Process0SendError(s)

Spec == Init /\ [][Next]_vars

\* one function applied to one header list
InitHeaders ==
    /\ revision \in Revisions
    /\ InitServing
    /\ InitStreams
    /\ InitFn
    /\ arg \in HeaderSeqs

NextHeaders ==
    \/ CallProcessRequestHeaders
    \/ CallAddProcessedByHeader

SpecHeaders == InitHeaders /\ [][NextHeaders]_vars

\* parseInstructions applied to one payload: the encoding of a directive, or a
\* malformed string
InitDirective ==
    /\ revision = "main.go"
    /\ InitServing
    /\ InitStreams
    /\ fn = "none"
    /\ locals = NoLocals
    /\ callees = <<>>
    /\ result = NoResponse
    /\ \/ /\ directive \in Directives
          /\ arg = EncodeDirective(directive)
       \/ /\ directive = NoDirective
          /\ arg \in MalformedPayloads

NextDirective == CallParseInstructions

SpecDirective == InitDirective /\ [][NextDirective]_vars

\* the fragments parseInstructions searches a payload for
FragmentPool ==
    { "\"header3\":\"value3\"", "\"header4\":\"value4\"", "\"removeHeaders\"",
      "\"header2\"", "\"instructions\"" }

RECURSIVE JoinFragments(_)
JoinFragments(q) ==
    IF q = <<>> THEN "" ELSE Head(q) \o JoinFragments(Tail(q))

\* payloads holding any of the fragments, each at most once, in any order
ShuffledPayloads ==
    { JoinFragments(q) : q \in DistinctSeqs(FragmentPool, Cardinality(FragmentPool)) }

PayloadPaths == { "/public", "/api/v1/x", "/admin", "/admin/api/v1", "/protected/admin/api/v1" }

\* processRequestHeaders and its call of parseInstructions on one request
\* with a path and a directive payload
InitPayload ==
    /\ revision = "main.go"
    /\ InitServing
    /\ InitStreams
    /\ InitFn
    /\ \E path \in PayloadPaths, p \in ShuffledPayloads :
          arg = << HeaderValue(":path", path), HeaderValue("instructions", p) >>

NextPayload == CallProcessRequestHeaders \/ CallCapturedParseInstructions

SpecPayload == InitPayload /\ [][NextPayload]_vars

\* the process from the first statement of main, with one stream served once
\* Serve accepts
StartupStreams == {"s1"}

InitStartup ==
    /\ revision \in Revisions
    /\ mainPc = IF revision = "part_000" THEN "start" ELSE "listen"
    /\ primary = "unbound"
    /\ aux = "none"
    /\ health = [n \in HealthNames |-> "UNKNOWN"]
    /\ probe = NoProbe
    /\ nProbes = 0
    /\ InitStreams
    /\ InitFn
    /\ arg = <<>>

MainStep ==
    \/ Main0SpawnHealth
    \/ Main0Listen
    \/ Main0ListenFailure
    \/ Main0NewHealthServer
    \/ Main0NewGrpc
    \/ Main0Serve
    \/ Main0ServeFailure
    \/ MainListen
    \/ MainListenFailure
    \/ MainServe
    \/ MainServeFailure

AuxStep ==
    \/ AuxListen
    \/ AuxListenFailure
    \/ HealthGet

StreamStep ==
    \E s \in StartupStreams :
        \/ (primary = "serving" /\ ProcessRecv(s))
        \/ (primary = "serving" /\ ProcessRecvEOF(s))
        \/ (primary = "serving" /\ ProcessRecvError(s))
        \/ (primary = "serving" /\ ProcessSend(s))
        \/ (primary = "serving" /\ ProcessSendError(s))
        \/ (primary = "serving" /\ Process0Recv(s))
        \/ (primary = "serving" /\ Process0RecvEOF(s))
        \/ (primary = "serving" /\ Process0RecvError(s))
        \/ (primary = "serving" /\ Process0Send(s))
        \/ (primary = "serving" /\ Process0SendError(s))

NextStartup == MainStep \/ AuxStep \/ StreamStep

SpecStartup == InitStartup /\ [][NextStartup]_vars

(***************************************************************************)
(* What the claims speak of                                                *)
(***************************************************************************)
Max(S) == CHOOSE x \in S : \A y \in S : y <= x

\* the positions of the headers named `name`, in any letter case
Occurrences(headers, name) == { i \in DOMAIN headers : ToLower(headers[i].key) = name }

\* the value of the last header named `name` ("" when there is none)
LastValueOf(headers, name) ==
    IF Occurrences(headers, name) = {} THEN ""
    ELSE headers[Max(Occurrences(headers, name))].value

CapturedPath(headers) == LastValueOf(headers, ":path")
CapturedDirective(headers) == LastValueOf(headers, "instructions")
AuthorizationPresent(headers) == Occurrences(headers, "authorization") # {}

\* the keys a response's mutation list touches
MutatedKeys(r) ==
    IF r.response = "RequestHeaders"
    THEN { IF r.headerMutation[i].action = "Remove" THEN r.headerMutation[i].remove
           ELSE r.headerMutation[i].header.key : i \in DOMAIN r.headerMutation }
    ELSE {}

Applied == fn = "processRequestHeaders"

\* C1: on every stream, each request delivered by Recv is answered by exactly one
\* Send before the next Recv, and the i-th response sent answers the i-th request.
C1_OneSendPerRecv ==
    \A s \in Streams :
        /\ pc[s] = "Recv" /\ ret[s] = "running" => nSent[s] = nRecv[s]
        /\ pc[s] = "Send" => nSent[s] + 1 = nRecv[s]
        /\ nSent[s] > 0 => lastSent[s].n = lastSent[s].answers

\* C2: a captured path containing "/protected" without an authorization header
\* yields exactly the 401 immediate response, carrying no mutation of stages 1-3,
\* and parseInstructions is not called.
C2_GateTerminal ==
    (Applied /\ Contains(CapturedPath(arg), "/protected") /\ ~AuthorizationPresent(arg))
    => /\ result = [response |-> "ImmediateResponse",
                    status |-> 401,
                    headers |-> << [key |-> "content-type", value |-> "application/json"] >>,
                    body |-> "{\"error\": \"Authorization required\"}"]
       /\ MutatedKeys(result) = {}
       /\ \A i \in DOMAIN result.headers :
              result.headers[i].key \notin {"x-processed-by", "x-api-version", "x-admin-access"}
       /\ callees = <<>>

\* C2's case: a blocked request whose path also matches both path rules and which
\* carries a non-empty directive
C2_Witness ==
    /\ Applied
    /\ Contains(CapturedPath(arg), "/protected")
    /\ Contains(CapturedPath(arg), "/admin")
    /\ Contains(CapturedPath(arg), "/api/v1")
    /\ ~AuthorizationPresent(arg)
    /\ CapturedDirective(arg) = FullDirective
    /\ result.response = "ImmediateResponse"

\* C3: a captured path without "/protected" (or no :path header at all) never
\* yields an immediate response: the outcome is a Continue with a mutation list.
C3_NoTerminalOffProtected ==
    (Applied /\ ~Contains(CapturedPath(arg), "/protected"))
    => /\ result.response = "RequestHeaders"
       /\ result.status = "CONTINUE"
       /\ Len(result.headerMutation) >= 1

\* C3's case: no :path header, no authorization, a directive, and a header named
\* "path" (not ":path") whose value is "/protected"
C3_Witness ==
    /\ Applied
    /\ Occurrences(arg, ":path") = {}
    /\ ~AuthorizationPresent(arg)
    /\ CapturedDirective(arg) # ""
    /\ \E i \in DOMAIN arg : arg[i] = HeaderValue("path", "/protected")
    /\ result.response = "RequestHeaders"

\* C4: a delivered request that is not RequestHeaders is answered by a
\* continue-kind response, not by an immediate response, and the header
\* pipeline is not called for it.
C4_OtherKindsProceed ==
    \A s \in Streams :
        /\ (lastIO[s] = "RecvOk" /\ req[s].kind \in OtherKinds)
           => /\ pc[s] = "Send"
              /\ resp[s].response \notin {"none", "ImmediateResponse"}
        /\ nPipeline[s] = nHeaderEvents[s]

\* everything the model holds about stream s
StreamState(s) ==
    <<pc[s], req[s], resp[s], ret[s], lastIO[s], nRecv[s], nSent[s], lastSent[s],
      nPipeline[s], nHeaderEvents[s]>>

Terminating == {"RecvEOF", "RecvErr", "SendErr"}

\* C5: on io.EOF the worker returns nil, sends nothing for the close and makes
\* no further Recv or Send; a worker leaves its loop only on peer close, a Recv
\* error or a Send error.
C5_CleanClose ==
    /\ [](\A s \in Streams :
            /\ lastIO[s] = "RecvEOF" => (pc[s] = "Returned" /\ ret[s] = "nil")
            /\ pc[s] = "Returned" <=> lastIO[s] \in Terminating
            /\ ret[s] = "nil" => lastIO[s] = "RecvEOF"
            /\ ret[s] = "running" <=> pc[s] # "Returned")
    /\ [][\A s \in Streams :
            /\ (lastIO[s] # "RecvEOF" /\ lastIO'[s] = "RecvEOF")
               => (nSent'[s] = nSent[s] /\ lastSent'[s] = lastSent[s] /\ nRecv'[s] = nRecv[s])
            /\ pc[s] = "Returned" => StreamState(s)' = StreamState(s)
            /\ (pc[s] \in {"Recv", "Send"} /\ pc'[s] \notin {"Recv", "Send"})
               => lastIO'[s] \in Terminating]_vars

\* the step in which stream s's worker fails
Fails(s) == pc[s] # "Returned" /\ lastIO'[s] \in {"RecvErr", "SendErr"}

\* C6: a Recv or Send failure ends only that stream's worker, with a non-nil
\* error, is not retried, and leaves every other stream's worker as it is and
\* able to go on receiving and responding.
C6_FailureIsolated ==
    /\ [](\A s \in Streams :
            lastIO[s] \in {"RecvErr", "SendErr"}
            => /\ pc[s] = "Returned"
               /\ ret[s] \notin {"nil", "running"}
               /\ \A t \in Streams \ {s} :
                    /\ (pc[t] = "Recv" /\ nRecv[t] < MaxEvents)
                       => ENABLED (ProcessRecv(t) \/ Process0Recv(t))
                    /\ pc[t] = "Send"
                       => ENABLED (ProcessSend(t) \/ Process0Send(t)))
    /\ [][\A s \in Streams :
            /\ Fails(s) => \A t \in Streams \ {s} : StreamState(t)' = StreamState(t)
            /\ Fails(s) => (mainPc' = mainPc /\ primary' = primary /\ primary = "serving")
            /\ lastIO[s] \in {"RecvErr", "SendErr"}
               => (nRecv'[s] = nRecv[s] /\ nSent'[s] = nSent[s] /\ lastIO'[s] = lastIO[s]
                   /\ pc'[s] = pc[s] /\ ret'[s] = ret[s])]_vars

\* C6's case: one worker failed on Send after its first request while the other
\* is still in its loop, having answered more requests
C6_Witness ==
    \E s, t \in Streams :
        /\ s # t
        /\ lastIO[s] = "SendErr"
        /\ nRecv[s] = 1
        /\ pc[t] = "Recv"
        /\ ret[t] = "running"
        /\ nSent[t] >= 2

\* C7: when the gate does not fire, the Continue list is the stamp, then
\* x-api-version: v1 iff the path contains "/api/v1", then x-admin-access: true
\* iff it contains "/admin", then the decoder's output iff a non-empty directive
\* was captured; "/api/v1/anything" with authorization and no directive gives
\* exactly [stamp, x-api-version: v1].
C7_ContinueList ==
    /\ (Applied /\ ~(Contains(CapturedPath(arg), "/protected") /\ ~AuthorizationPresent(arg)))
       => result =
            [response |-> "RequestHeaders",
             status |-> "CONTINUE",
             headerMutation |->
                << [action |-> "Append",
                    header |-> [key |-> "x-processed-by", value |-> "eag-extproc-service"]] >>
                \o (IF Contains(CapturedPath(arg), "/api/v1")
                    THEN << [action |-> "Append",
                             header |-> [key |-> "x-api-version", value |-> "v1"]] >>
                    ELSE <<>>)
                \o (IF Contains(CapturedPath(arg), "/admin")
                    THEN << [action |-> "Append",
                             header |-> [key |-> "x-admin-access", value |-> "true"]] >>
                    ELSE <<>>)
                \o (IF CapturedDirective(arg) # ""
                    THEN parseInstructions(CapturedDirective(arg))
                    ELSE <<>>)]
    /\ (Applied /\ CapturedPath(arg) = "/api/v1/anything" /\ AuthorizationPresent(arg)
          /\ CapturedDirective(arg) = "")
       => result.headerMutation =
            << [action |-> "Append",
                header |-> [key |-> "x-processed-by", value |-> "eag-extproc-service"]],
               [action |-> "Append",
                header |-> [key |-> "x-api-version", value |-> "v1"]] >>

\* C7's case: both path rules and a directive with four mutations
C7_Witness ==
    /\ Applied
    /\ result.response = "RequestHeaders"
    /\ CapturedDirective(arg) = FullDirective
    /\ Len(result.headerMutation) = 7

\* C8: a path containing both "/api/v1" and "/admin" gets both appends in the
\* Continue list, x-api-version before x-admin-access, wherever the substrings
\* stand in the path.
C8_PathRuleOrder ==
    (Applied /\ result.response = "RequestHeaders"
       /\ Contains(CapturedPath(arg), "/api/v1") /\ Contains(CapturedPath(arg), "/admin"))
    => \E i, j \in DOMAIN result.headerMutation :
          /\ i < j
          /\ result.headerMutation[i] =
                [action |-> "Append", header |-> [key |-> "x-api-version", value |-> "v1"]]
          /\ result.headerMutation[j] =
                [action |-> "Append", header |-> [key |-> "x-admin-access", value |-> "true"]]
          /\ \A k \in DOMAIN result.headerMutation :
                (result.headerMutation[k].action = "Append"
                 /\ result.headerMutation[k].header.key \in {"x-api-version", "x-admin-access"})
                => k \in {i, j}

\* C8's case: "/admin" stands before "/api/v1" in the path
C8_Witness ==
    /\ Applied
    /\ CapturedPath(arg) = "/admin/x/api/v1"
    /\ result.response = "RequestHeaders"

\* C9: extraction is one pass, keys matched in any letter case, last occurrence
\* wins: the path and the directive are the values of the last ":path" and the
\* last "instructions" header (a later empty directive cancels an earlier one),
\* and authorization is present iff some header is keyed "authorization".
C9_LastOccurrenceWins ==
    Applied =>
        /\ locals = [requestPath |-> CapturedPath(arg),
                     instructionsValue |-> CapturedDirective(arg),
                     hasAuth |-> AuthorizationPresent(arg)]
        /\ result.response = "ImmediateResponse"
           <=> (Contains(CapturedPath(arg), "/protected") /\ ~AuthorizationPresent(arg))
        /\ (result.response = "RequestHeaders" /\ CapturedDirective(arg) = "")
           => MutatedKeys(result) \subseteq {"x-processed-by", "x-api-version", "x-admin-access"}
        /\ callees = IF result.response = "RequestHeaders" /\ CapturedDirective(arg) # ""
                     THEN <<"parseInstructions">> ELSE <<>>

\* C9's case: two ":path" headers in different letter case, the earlier one
\* protected and the later one not, after a directive that a later empty one cancels
C9_Witness ==
    /\ Applied
    /\ \E i, j, k \in DOMAIN arg :
          /\ i < j
          /\ ToLower(arg[i].key) = ":path" /\ Contains(arg[i].value, "/protected")
          /\ ToLower(arg[j].key) = ":path" /\ ~Contains(arg[j].value, "/protected")
          /\ arg[i].key # arg[j].key
          /\ j = Max(Occurrences(arg, ":path"))
          /\ ToLower(arg[k].key) = "instructions"
    /\ ~AuthorizationPresent(arg)
    /\ result.response = "RequestHeaders"

\* the entries of a Continue list that touch the key x-processed-by
StampEntries(r) ==
    { i \in DOMAIN r.headerMutation :
        /\ r.headerMutation[i].action # "Remove"
        /\ r.headerMutation[i].header.key = "x-processed-by" }

\* C10 as stated: every Continue outcome, of either revision, starts with an
\* Append of x-processed-by, and holds it exactly once.
C10_StampAlwaysAppend ==
    (fn # "none" /\ result.response = "RequestHeaders")
    => /\ result.headerMutation[1].action = "Append"
       /\ result.headerMutation[1].header.key = "x-processed-by"
       /\ StampEntries(result) = {1}

\* C10 as amended: processRequestHeaders' Continue outcomes start with
\* Append(x-processed-by: eag-extproc-service), held exactly once, whatever the
\* incoming headers; addProcessedByHeader answers with the single entry
\* x-processed-by: ext-proc-go-server as an overwrite-or-add.
C10_StampByRevision ==
    /\ (Applied /\ result.response = "RequestHeaders")
       => /\ result.headerMutation[1] =
                [action |-> "Append",
                 header |-> [key |-> "x-processed-by", value |-> "eag-extproc-service"]]
          /\ StampEntries(result) = {1}
    /\ fn = "addProcessedByHeader"
       => result.headerMutation =
            << [action |-> "SetHeader",
                header |-> [key |-> "x-processed-by", value |-> "ext-proc-go-server"],
                appendAction |-> "OVERWRITE_IF_EXISTS_OR_ADD"] >>

\* C10's case: the incoming headers already hold an x-processed-by header
C10_Witness ==
    /\ Applied
    /\ result.response = "RequestHeaders"
    /\ Occurrences(arg, "x-processed-by") # {}
    /\ Len(result.headerMutation) >= 2

Decoded == fn = "parseInstructions"

\* the list with a directive header carrying payload p put after the headers hs
WithDirective(hs, p) == Append(hs, HeaderValue("instructions", p))

\* header lists without a directive header
PlainHeaderSeqs ==
    { <<>>,
      << HeaderValue(":path", "/api/v1/admin"), HeaderValue("authorization", "Bearer t") >> }

\* C11: an empty or unparseable directive payload gives the Continue list of the
\* same headers without a directive header: the decoder contributes no mutation.
C11_MalformedIsNoOp ==
    (Decoded /\ ~directive.wellFormed)
    => /\ result = <<>>
       /\ \A hs \in PlainHeaderSeqs :
             processRequestHeaders(WithDirective(hs, arg)) = processRequestHeaders(hs)

\* C12: for a well-formed payload every key/value pair under addHeaders yields
\* an Append of that key and value and every entry of removeHeaders a Remove of
\* that key, whatever the keys and values are.
C12_ArbitraryKeys ==
    (Decoded /\ directive.wellFormed)
    => /\ \A i \in DOMAIN directive.addHeaders :
             \E j \in DOMAIN result :
                 result[j] = [action |-> "Append",
                              header |-> [key |-> directive.addHeaders[i][1],
                                          value |-> directive.addHeaders[i][2]]]
       /\ \A i \in DOMAIN directive.removeHeaders :
             \E j \in DOMAIN result :
                 result[j] = [action |-> "Remove", remove |-> directive.removeHeaders[i]]

\* whether the list ms holds Remove(k)
Removes(ms, k) == \E j \in DOMAIN ms : ms[j] = [action |-> "Remove", remove |-> k]

\* C18: Remove("instructions") is emitted only if the raw payload contains
\* "instructions" in quotes; a consumed non-empty payload without it leaves no
\* Remove of the directive header in the decoder's output or in the Continue list.
C18_DirectiveHeaderRemoval ==
    Decoded =>
        /\ Removes(result, "instructions") => Contains(arg, "\"instructions\"")
        /\ (arg # "" /\ ~Contains(arg, "\"instructions\""))
           => \A hs \in PlainHeaderSeqs :
                 ~Removes(processRequestHeaders(WithDirective(hs, arg)).headerMutation,
                          "instructions")

\* C18's case: a well-formed payload without "instructions" that the decoder
\* consumed and turned into mutations
C18_Witness ==
    /\ Decoded
    /\ directive.wellFormed
    /\ ~Contains(arg, "\"instructions\"")
    /\ Len(result) = 3
    /\ ~Removes(result, "instructions")

\* C19: every Remove(k) the decoder produces names an entry k of the payload's
\* removeHeaders list.
C19_RemoveOnlyListed ==
    (Decoded /\ directive.wellFormed)
    => \A j \in DOMAIN result :
          result[j].action = "Remove"
          => \E i \in DOMAIN directive.removeHeaders :
                directive.removeHeaders[i] = result[j].remove

\* C20: a request whose path contains "/protected" is not rejected when some
\* header is keyed authorization, whatever its value, letter case and position:
\* the outcome is the Continue list of the path rules and the directive.
C20_AuthKeyOpensGate ==
    (Applied /\ Contains(CapturedPath(arg), "/protected") /\ AuthorizationPresent(arg))
    => /\ result.response = "RequestHeaders"
       /\ result.status = "CONTINUE"
       /\ result.headerMutation[1] =
             [action |-> "Append",
              header |-> [key |-> "x-processed-by", value |-> "eag-extproc-service"]]
       /\ Len(result.headerMutation) =
             1 + (IF Contains(CapturedPath(arg), "/api/v1") THEN 1 ELSE 0)
               + (IF Contains(CapturedPath(arg), "/admin") THEN 1 ELSE 0)
               + (IF CapturedDirective(arg) # ""
                  THEN Len(parseInstructions(CapturedDirective(arg))) ELSE 0)

\* C20's case: the only authorization header is keyed "Author" U+0130 "zation"
\* (lower-cased to "authorization"), has an empty value and stands before the ":path" header of a protected path
C20_Witness ==
    /\ Applied
    /\ Contains(CapturedPath(arg), "/protected")
    /\ \E i, j \in DOMAIN arg :
          /\ i < j
          /\ arg[i] = HeaderValue("Author" \o CapitalIWithDot \o "zation", "")
          /\ Occurrences(arg, "authorization") = {i}
          /\ j = Max(Occurrences(arg, ":path"))
    /\ result.response = "RequestHeaders"

\* C14: request processing never changes the health registry: a step of a
\* stream's worker (a Recv with the pipeline applied, a Send, a close, a Recv
\* or Send failure) leaves every service's status as it is, and the registry
\* changes only in main's startup sequence, before Serve.
C14_RegistryFrame ==
    /\ [][(\E s \in Streams : StreamState(s)' # StreamState(s)) => health' = health]_vars
    /\ [][health' # health
            => /\ mainPc \in {"newHealthServer", "newGrpc"}
               /\ mainPc' # mainPc
               /\ streamVars' = streamVars]_vars
    /\ [](primary = "serving" /\ revision = "part_000"
            => \A n \in HealthNames : health[n] = "SERVING")

C14_Witness ==
    /\ revision = "part_000"
    /\ lastIO["s1"] = "SendErr"
    /\ nPipeline["s1"] >= 1
    /\ nSent["s1"] >= 1
    /\ \A n \in HealthNames : health[n] = "SERVING"

\* C15: in every state in which the /health listener is up, a GET /health is
\* answered, and every answer is 200 with body "OK", whatever the registry
\* holds, whether or not it has been set up, and whether or not the primary
\* listener is bound or serving; no step of main or of a stream takes the
\* listener down while the process runs.
C15_HealthAlwaysOK ==
    /\ [][nProbes' # nProbes => probe' = [status |-> 200, body |-> "OK"]]_vars
    /\ [](probe # NoProbe => probe = [status |-> 200, body |-> "OK"])
    /\ [](aux = "up" /\ nProbes < MaxProbes => ENABLED HealthGet)
    /\ [][(aux = "up" /\ aux' # "up")
            => \/ mainPc' = "exited"
               \/ (aux' = "failed" /\ UNCHANGED <<mainPc, primary, health>>)]_vars

C15_Witness ==
    /\ aux = "up"
    /\ nProbes >= 1
    /\ probe = [status |-> 200, body |-> "OK"]
    /\ primary = "unbound"
    /\ \A n \in HealthNames : health[n] = "UNKNOWN"

\* C16 as stated: an entry of the registry is SERVING only while the primary
\* listener accepts streams, and after a successful startup both entries are
\* SERVING.
C16_ServingOnlyWhenAccepting ==
    /\ \A n \in HealthNames : health[n] = "SERVING" => primary = "serving"
    /\ (revision = "part_000" /\ mainPc = "serving")
        => \A n \in HealthNames : health[n] = "SERVING"

\* C16: an entry of the registry becomes SERVING only after net.Listen has
\* bound the primary listener, never before and never when the bind failed;
\* both entries are set before Serve starts accepting streams, and after a
\* successful startup both are SERVING.
C16_ServingOnlyAfterBind ==
    /\ \A n \in HealthNames : health[n] = "SERVING" => primary \in {"bound", "serving", "stopped"}
    /\ (revision = "part_000" /\ mainPc \in {"serve", "serving"})
        => \A n \in HealthNames : health[n] = "SERVING"

C16_Witness ==
    /\ revision = "part_000"
    /\ primary = "bound"
    /\ mainPc = "serve"
    /\ \A n \in HealthNames : health[n] = "SERVING"

\* C17: a failed bind of the primary listener ends the process and no stream
\* is ever served (once the process has exited nothing moves and no worker is
\* left in its loop); a failed bind of the /health listener changes nothing in
\* main, which still binds the primary listener, serves and answers streams.
C17_BindFailures ==
    /\ [](primary = "failed"
            => /\ mainPc = "exited"
               /\ \A s \in Streams : nRecv[s] = 0 /\ nSent[s] = 0 /\ lastIO[s] = "none")
    /\ [][mainPc = "exited" => vars' = vars]_vars
    /\ [](mainPc = "exited" => \A s \in Streams : pc[s] \in {"Returned", "Crashed"})
    /\ [][aux # "failed" /\ aux' = "failed" => mainPc' = mainPc /\ primary' = primary]_vars
    /\ [](aux = "failed" /\ mainPc \notin {"serving", "exited"} => ENABLED MainStep)
    /\ [](aux = "failed" /\ primary = "serving" /\ pc["s1"] = "Recv" /\ nRecv["s1"] < MaxEvents
            => ENABLED StreamStep)

C17_Witness ==
    /\ revision = "part_000"
    /\ aux = "failed"
    /\ primary = "serving"
    /\ nSent["s1"] >= 1

\* the mutations parseInstructions can emit, in the order of its tests
DecoderList ==
    << [action |-> "Append", header |-> [key |-> "header3", value |-> "value3"]],
       [action |-> "Append", header |-> [key |-> "header4", value |-> "value4"]],
       [action |-> "Remove", remove |-> "header2"],
       [action |-> "Remove", remove |-> "instructions"] >>

\* ms is a subsequence of l: its entries are entries of l, in l's order
IsSubsequence(ms, l) ==
    \E f \in [DOMAIN ms -> DOMAIN l] :
        /\ \A i \in DOMAIN ms : ms[i] = l[f[i]]
        /\ \A i, j \in DOMAIN ms : i < j => f[i] < f[j]

\* C21: for every payload the decoder's output is a subsequence of
\* [Append(header3: value3), Append(header4: value4), Remove(header2),
\* Remove(instructions)]: no mutation twice, every Append before every Remove,
\* whatever the order of the keys in the payload; and every Continue list has
\* between 1 and 7 entries.
C21_DecoderSubsequence ==
    /\ Decoded =>
          /\ IsSubsequence(result, DecoderList)
          /\ \A i, j \in DOMAIN result : i # j => result[i] # result[j]
          /\ \A i, j \in DOMAIN result :
                (result[i].action = "Append" /\ result[j].action = "Remove") => i < j
    /\ (Applied /\ result.response = "RequestHeaders")
          => /\ Len(result.headerMutation) \in 1..7
             /\ \E k \in 1..3 :
                   IsSubsequence(SubSeq(result.headerMutation, k + 1, Len(result.headerMutation)),
                                 DecoderList)

C21_Witness ==
    /\ Applied
    /\ CapturedDirective(arg)
         = "\"instructions\"\"header2\"\"removeHeaders\"\"header4\":\"value4\"\"header3\":\"value3\""
    /\ result.response = "RequestHeaders"
    /\ Len(result.headerMutation) = 7
    /\ SubSeq(result.headerMutation, 4, 7) = DecoderList

\* what the pipeline owes one header list, as a function of the list alone: the
\* stream, its counters and the other streams do not occur in it
C13_Fragments ==
    << {"\"header3\":\"value3\""},
       {"\"header4\":\"value4\""},
       {"\"removeHeaders\"", "\"header2\""},
       {"\"removeHeaders\"", "\"instructions\""} >>

\* the ordered mutation list of one payload: the entries of the decoder's list
\* whose fragments all occur in it
C13_Decoded(payload) ==
    LET Pick(i) == IF \A f \in C13_Fragments[i] : Contains(payload, f)
                   THEN << DecoderList[i] >> ELSE <<>>
    IN Pick(1) \o Pick(2) \o Pick(3) \o Pick(4)

C13_Outcome(headers) ==
    IF revision = "part_000"
    THEN [response |-> "RequestHeaders",
          status |-> "CONTINUE",
          headerMutation |->
             << [action |-> "SetHeader",
                 header |-> [key |-> "x-processed-by", value |-> "ext-proc-go-server"],
                 appendAction |-> "OVERWRITE_IF_EXISTS_OR_ADD"] >>]
    ELSE IF Contains(CapturedPath(headers), "/protected") /\ ~AuthorizationPresent(headers)
    THEN [response |-> "ImmediateResponse",
          status |-> StatusCode_Unauthorized,
          headers |-> << [key |-> "content-type", value |-> "application/json"] >>,
          body |-> "{\"error\": \"Authorization required\"}"]
    ELSE [response |-> "RequestHeaders",
          status |-> "CONTINUE",
          headerMutation |->
             << [action |-> "Append",
                 header |-> [key |-> "x-processed-by", value |-> "eag-extproc-service"]] >>
             \o (IF Contains(CapturedPath(headers), "/api/v1")
                 THEN << [action |-> "Append",
                          header |-> [key |-> "x-api-version", value |-> "v1"]] >>
                 ELSE <<>>)
             \o (IF Contains(CapturedPath(headers), "/admin")
                 THEN << [action |-> "Append",
                          header |-> [key |-> "x-admin-access", value |-> "true"]] >>
                 ELSE <<>>)
             \o (IF CapturedDirective(headers) # ""
                 THEN C13_Decoded(CapturedDirective(headers))
                 ELSE <<>>)]

\* C13: the response built for a RequestHeaders request is a function of its
\* header list alone, the decoded part of it a function of the payload alone:
\* whatever the stream, the number of requests it has processed and the state
\* of the other stream, the response is the one the header list determines; so
\* the same request being answered on two streams has the same response on
\* both, and a request that repeats the one just answered on its stream gets
\* the response that was sent for it.
C13_NoCrossRequestState ==
    /\ [](\A s \in Streams :
            (pc[s] = "Send" /\ req[s].kind = "RequestHeaders")
               => resp[s] = C13_Outcome(req[s].headers))
    /\ [](\A s, t \in Streams :
            (pc[s] = "Send" /\ pc[t] = "Send" /\ req[s] = req[t]) => resp[s] = resp[t])
    /\ [][\A s \in Streams :
            (/\ pc[s] = "Recv" /\ pc'[s] = "Send"
             /\ nRecv[s] > 0 /\ lastSent[s].answers = nRecv[s]
             /\ req'[s] = req[s])
               => resp'[s] = lastSent[s].response]_vars

\* C13's case: the request carrying the full directive is being answered on
\* two streams, as the first request of one and as the third of the other,
\* where it follows a request of another kind and an answered copy of itself;
\* all three responses end with the same four decoded mutations
C13_Witness ==
    \E s, t \in Streams :
        /\ s # t
        /\ revision = "main.go"
        /\ pc[s] = "Send" /\ pc[t] = "Send"
        /\ req[s] = req[t]
        /\ req[s].kind = "RequestHeaders"
        /\ CapturedDirective(req[s].headers) = FullDirective
        /\ nRecv[t] = 1
        /\ nRecv[s] = 3 /\ nPipeline[s] = 2
        /\ lastSent[s].answers = 2
        /\ lastSent[s].response = resp[s]
        /\ resp[t] = resp[s]
        /\ SubSeq(resp[s].headerMutation, 4, 7) = DecoderList


====
